---- MODULE Spec2Model ----
(***************************************************************************)
(* The sqlite backend of the nfsdcld client tracking daemon                *)
(* (utils/nfsdcld/sqlite.c) as a state machine.                            *)
(*                                                                         *)
(* The on-disk database is a function from table names to table contents;  *)
(* every SQL statement the code issues is an operator on that function     *)
(* returning the sqlite result code and the new database.  A handler is    *)
(* the composition of its statements in the order of the code, with its    *)
(* early returns and its rollback path.  The process holds the database    *)
(* handle dbh and the two globals current_epoch and recovery_epoch.        *)
(*                                                                         *)
(* Epochs are uint64_t in the code.  The model caps current_epoch at       *)
(* MaxEpoch, far below the wrap at 2^64, so tcur++ and the int64_t casts   *)
(* of the grace row are exact on the modelled range.                       *)
(***************************************************************************)
EXTENDS Integers, Sequences, FiniteSets, TLC

\* ------------------------------------------------------------------ bounds

\* grace_start is not taken from a current_epoch of MaxEpoch.
MaxEpoch == 4
\* The number of distinct client ids (opaque byte strings) in play.
NumIds == 2

ClientIds == 1..NumIds

\* With two processes: the largest current epoch and the number of
\* client ids.
MaxRaceEpoch == 3
NumRaceIds == 1
RaceIds == 1..NumRaceIds

\* ------------------------------------------------------- program constants

CLD_SQLITE_LATEST_SCHEMA_VERSION == 3
SQLITE_OK == 0
SQLITE_ERROR == 1
SQLITE_DONE == 101
EINVAL == 22
EACCES == 13

\* ------------------------------------------------------------- table names

HexChar(d) ==
    CASE d = 0 -> "0" [] d = 1 -> "1" [] d = 2 -> "2" [] d = 3 -> "3"
      [] d = 4 -> "4" [] d = 5 -> "5" [] d = 6 -> "6" [] d = 7 -> "7"
      [] d = 8 -> "8" [] d = 9 -> "9" [] d = 10 -> "a" [] d = 11 -> "b"
      [] d = 12 -> "c" [] d = 13 -> "d" [] d = 14 -> "e" [] d = 15 -> "f"

RECURSIVE Hex(_, _)
\* printf's %0<width>lx: lowercase hex, zero-padded to width digits.
Hex(n, width) ==
    IF width = 0 THEN ""
    ELSE Hex(n \div 16, width - 1) \o HexChar(n % 16)

\* "rec-%016lx"
RecTable(epoch) == "rec-" \o Hex(epoch, 16)

\* ------------------------------------------------------------ the database

\* What sqlite3_column_int makes of a TEXT value of the parameters table.
column_int(text) ==
    CASE text = "1" -> 1 [] text = "2" -> 2 [] text = "3" -> 3
      [] text = "4" -> 4 [] OTHER -> 0

\* The TEXT a value of %d takes in the parameters table.
VersionText(v) ==
    CASE v = 1 -> "1" [] v = 2 -> "2" [] v = 3 -> "3" [] v = 4 -> "4"

HasTable(d, t) == t \in DOMAIN d

Result(rc, d) == [rc |-> rc, db |-> d]

\* CREATE TABLE t (...): fails when the table exists.
ExecCreateTable(d, t, empty) ==
    IF HasTable(d, t) THEN Result(SQLITE_ERROR, d)
    ELSE Result(SQLITE_OK, [x \in DOMAIN d \cup {t} |-> IF x = t THEN empty ELSE d[x]])

\* Mutant of ExecDropTable: the table is emptied (DELETE FROM), not dropped.
ExecDropTableKeep(d, t) ==
    IF ~HasTable(d, t) THEN Result(SQLITE_ERROR, d)
    ELSE Result(SQLITE_OK, [d EXCEPT ![t] = {}])

\* DROP TABLE t: fails when there is no such table.
ExecDropTable(d, t) ==
    IF ~HasTable(d, t) THEN Result(SQLITE_ERROR, d)
    ELSE Result(SQLITE_OK, [x \in DOMAIN d \ {t} |-> d[x]])

\* Mutant of ExecDeleteAll: the statement deletes no row.
ExecDeleteNone(d, t) ==
    IF ~HasTable(d, t) THEN Result(SQLITE_ERROR, d)
    ELSE Result(SQLITE_OK, d)

\* Mutant of ExecDeleteAll: the rows of every bucket go.
ExecDeleteAllBuckets(d, t) ==
    IF ~HasTable(d, t) THEN Result(SQLITE_ERROR, d)
    ELSE Result(SQLITE_OK,
                [x \in DOMAIN d |->
                    IF x \in {"parameters", "grace"} THEN d[x] ELSE {}])

\* DELETE FROM t: every row goes.
ExecDeleteAll(d, t) ==
    IF ~HasTable(d, t) THEN Result(SQLITE_ERROR, d)
    ELSE Result(SQLITE_OK, [d EXCEPT ![t] = {}])

\* INSERT OR FAIL INTO grace values (current, recovery)
ExecInsertGrace(d, row) ==
    IF ~HasTable(d, "grace") THEN Result(SQLITE_ERROR, d)
    ELSE Result(SQLITE_OK, [d EXCEPT !["grace"] = Append(@, row)])

\* Mutant of ExecUpdateGrace: the two values are written to each other's
\* column.
ExecUpdateGraceSwapped(d, c, r) ==
    IF ~HasTable(d, "grace") THEN Result(SQLITE_ERROR, d)
    ELSE Result(SQLITE_OK,
                [d EXCEPT !["grace"] =
                    [i \in DOMAIN @ |-> [current |-> r, recovery |-> c]]])

\* Mutant of ExecUpdateGrace: only the current column is written.
ExecUpdateGraceCurrentOnly(d, c, r) ==
    IF ~HasTable(d, "grace") THEN Result(SQLITE_ERROR, d)
    ELSE Result(SQLITE_OK,
                [d EXCEPT !["grace"] =
                    [i \in DOMAIN @ |-> [@[i] EXCEPT !.current = c]]])

\* UPDATE grace SET current = c, recovery = r: every row of the table.
ExecUpdateGrace(d, c, r) ==
    IF ~HasTable(d, "grace") THEN Result(SQLITE_ERROR, d)
    ELSE Result(SQLITE_OK,
                [d EXCEPT !["grace"] =
                    [i \in DOMAIN @ |-> [current |-> c, recovery |-> r]]])

\* Mutant of ExecClearRecovery: the row is left as it is.
ExecClearRecoveryNone(d) ==
    IF ~HasTable(d, "grace") THEN Result(SQLITE_ERROR, d)
    ELSE Result(SQLITE_OK, d)

\* UPDATE grace SET recovery = "0": the INTEGER column takes 0.
ExecClearRecovery(d) ==
    IF ~HasTable(d, "grace") THEN Result(SQLITE_ERROR, d)
    ELSE Result(SQLITE_OK,
                [d EXCEPT !["grace"] =
                    [i \in DOMAIN @ |-> [@[i] EXCEPT !.recovery = 0]]])

\* Mutant of ExecInsertVersion: the version written is the one before v.
ExecInsertVersionStale(d, v) ==
    IF ~HasTable(d, "parameters") THEN Result(SQLITE_ERROR, d)
    ELSE Result(SQLITE_OK,
                [d EXCEPT !["parameters"] = @ \cup {<<"version", VersionText(v - 1)>>}])

\* INSERT OR FAIL INTO parameters values ("version", "<v>"): key is the
\* primary key.
ExecInsertVersion(d, v) ==
    IF ~HasTable(d, "parameters") THEN Result(SQLITE_ERROR, d)
    ELSE IF \E p \in d["parameters"] : p[1] = "version"
         THEN Result(SQLITE_ERROR, d)
    ELSE Result(SQLITE_OK,
                [d EXCEPT !["parameters"] = @ \cup {<<"version", VersionText(v)>>}])

\* Mutant of ExecUpdateVersion: the version is left as it is.
ExecUpdateVersionNone(d, v) ==
    IF ~HasTable(d, "parameters") THEN Result(SQLITE_ERROR, d)
    ELSE Result(SQLITE_OK, d)

\* UPDATE parameters SET value = <v> WHERE key = "version"
ExecUpdateVersion(d, v) ==
    IF ~HasTable(d, "parameters") THEN Result(SQLITE_ERROR, d)
    ELSE Result(SQLITE_OK,
                [d EXCEPT !["parameters"] =
                    {IF p[1] = "version" THEN <<p[1], VersionText(v)>> ELSE p : p \in @}])

\* Mutant of ExecCopyIds: no row is copied.
ExecCopyIdsNone(d, dst, src) ==
    IF ~HasTable(d, dst) \/ ~HasTable(d, src) THEN Result(SQLITE_ERROR, d)
    ELSE Result(SQLITE_OK, d)

\* INSERT INTO dst SELECT id FROM src: id is dst's primary key.
ExecCopyIds(d, dst, src) ==
    IF ~HasTable(d, dst) \/ ~HasTable(d, src) THEN Result(SQLITE_ERROR, d)
    ELSE IF d[dst] \cap d[src] # {} THEN Result(SQLITE_ERROR, d)
    ELSE Result(SQLITE_OK, [d EXCEPT ![dst] = @ \cup d[src]])

\* sqlite3_prepare_v2 of a statement on table t
Prepare(d, t) == IF HasTable(d, t) THEN SQLITE_OK ELSE SQLITE_ERROR

\* Mutant of StepInsertOrReplace: INSERT OR FAIL, which the primary key
\* refuses (SQLITE_CONSTRAINT, 19) when the id is there already.
StepInsertOrFail(d, t, id) ==
    IF id \in d[t] THEN Result(19, d)
    ELSE Result(SQLITE_DONE, [d EXCEPT ![t] = @ \cup {id}])

\* sqlite3_step of INSERT OR REPLACE INTO t VALUES (id)
StepInsertOrReplace(d, t, id) ==
    Result(SQLITE_DONE, [d EXCEPT ![t] = (@ \ {id}) \cup {id}])

\* Mutant of StepDeleteId: the WHERE clause is missing.
StepDeleteAll(d, t, id) ==
    Result(SQLITE_DONE, [d EXCEPT ![t] = {}])

\* sqlite3_step of DELETE FROM t WHERE id == ?
StepDeleteId(d, t, id) ==
    Result(SQLITE_DONE, [d EXCEPT ![t] = @ \ {id}])

\* Mutant of SelectCount: the WHERE clause is missing.
SelectCountAll(d, t, id) == Cardinality(d[t])

\* SELECT count(*) FROM t WHERE id == ?
SelectCount(d, t, id) == Cardinality({x \in d[t] : x = id})

\* ---------------------------------------------------------------- handlers

\* The result of a handler: its return value and the database it leaves
\* (after COMMIT, or as it was after ROLLBACK).
Ret(ret, d) == [ret |-> ret, db |-> d]

\* The result of a handler that also sets the in-memory epochs.
RetEpochs(ret, d, cur, rec) == [ret |-> ret, db |-> d, cur |-> cur, rec |-> rec]

\* SELECT value FROM parameters WHERE key == "version": 0 when the
\* statement cannot be prepared or yields no row.
sqlite_query_schema_version(d) ==
    IF Prepare(d, "parameters") # SQLITE_OK THEN 0
    ELSE LET rows == {p \in d["parameters"] : p[1] = "version"}
         IN  IF rows = {} THEN 0
             ELSE column_int((CHOOSE p \in rows : TRUE)[2])

\* Mutant of InitialGraceRow: the first epoch is 0.
InitialGraceRowZero == [current |-> 0, recovery |-> 0]

\* The row "INSERT OR FAIL INTO grace values (1, 0)" inserts.
InitialGraceRow == [current |-> 1, recovery |-> 0]

\* Mutant of sqlite_maindb_update_schema: the version is not read again
\* under the transaction.
sqlite_maindb_update_schema_norecheck(d, oldversion) ==
    LET s1 == ExecCreateTable(d, "grace", <<>>)
        s2 == ExecInsertGrace(s1.db, InitialGraceRow)
        s3 == ExecCreateTable(s2.db, "rec-0000000000000001", {})
        s4 == ExecCopyIds(s3.db, "rec-0000000000000001", "clients")
        s5 == ExecDropTable(s4.db, "clients")
        s6 == ExecUpdateVersion(s5.db, CLD_SQLITE_LATEST_SCHEMA_VERSION)
    IN  IF s1.rc # SQLITE_OK THEN Ret(s1.rc, d)
        ELSE IF s2.rc # SQLITE_OK THEN Ret(s2.rc, d)
        ELSE IF s3.rc # SQLITE_OK THEN Ret(s3.rc, d)
        ELSE IF s4.rc # SQLITE_OK THEN Ret(s4.rc, d)
        ELSE IF s5.rc # SQLITE_OK THEN Ret(s5.rc, d)
        ELSE IF s6.rc # SQLITE_OK THEN Ret(s6.rc, d)
        ELSE Ret(SQLITE_OK, s6.db)


sqlite_maindb_update_schema(d, oldversion) ==
    LET v  == sqlite_query_schema_version(d)
        s1 == ExecCreateTable(d, "grace", <<>>)
        s2 == ExecInsertGrace(s1.db, InitialGraceRow)
        s3 == ExecCreateTable(s2.db, "rec-0000000000000001", {})
        s4 == ExecCopyIds(s3.db, "rec-0000000000000001", "clients")
        s5 == ExecDropTable(s4.db, "clients")
        s6 == ExecUpdateVersion(s5.db, CLD_SQLITE_LATEST_SCHEMA_VERSION)
    IN  IF v # oldversion
        THEN IF v = CLD_SQLITE_LATEST_SCHEMA_VERSION THEN Ret(0, d)
             ELSE Ret(-EINVAL, d)
        ELSE IF s1.rc # SQLITE_OK THEN Ret(s1.rc, d)
        ELSE IF s2.rc # SQLITE_OK THEN Ret(s2.rc, d)
        ELSE IF s3.rc # SQLITE_OK THEN Ret(s3.rc, d)
        ELSE IF s4.rc # SQLITE_OK THEN Ret(s4.rc, d)
        ELSE IF s5.rc # SQLITE_OK THEN Ret(s5.rc, d)
        ELSE IF s6.rc # SQLITE_OK THEN Ret(s6.rc, d)
        ELSE Ret(SQLITE_OK, s6.db)

sqlite_maindb_init_v3(d) ==
    LET v  == sqlite_query_schema_version(d)
        s1 == ExecCreateTable(d, "parameters", {})
        s2 == ExecCreateTable(s1.db, "grace", <<>>)
        s3 == ExecInsertGrace(s2.db, InitialGraceRow)
        s4 == ExecCreateTable(s3.db, "rec-0000000000000001", {})
        s5 == ExecInsertVersion(s4.db, CLD_SQLITE_LATEST_SCHEMA_VERSION)
    IN  IF v = CLD_SQLITE_LATEST_SCHEMA_VERSION THEN Ret(0, d)
        ELSE IF v # 0 THEN Ret(-EINVAL, d)
        ELSE IF s1.rc # SQLITE_OK THEN Ret(s1.rc, d)
        ELSE IF s2.rc # SQLITE_OK THEN Ret(s2.rc, d)
        ELSE IF s3.rc # SQLITE_OK THEN Ret(s3.rc, d)
        ELSE IF s4.rc # SQLITE_OK THEN Ret(s4.rc, d)
        ELSE IF s5.rc # SQLITE_OK THEN Ret(s5.rc, d)
        ELSE Ret(SQLITE_OK, s5.db)

\* Mutant of sqlite_startup_query_grace: the two columns are read into
\* the wrong globals.
sqlite_startup_query_grace_swapped(d, cur, rec) ==
    IF Prepare(d, "grace") # SQLITE_OK THEN RetEpochs(SQLITE_ERROR, d, cur, rec)
    ELSE IF d["grace"] = <<>> THEN RetEpochs(SQLITE_DONE, d, cur, rec)
    ELSE RetEpochs(0, d, d["grace"][1].recovery, d["grace"][1].current)

\* SELECT * FROM grace: the first row sets current_epoch and
\* recovery_epoch; without a row they stay as they are.
sqlite_startup_query_grace(d, cur, rec) ==
    IF Prepare(d, "grace") # SQLITE_OK THEN RetEpochs(SQLITE_ERROR, d, cur, rec)
    ELSE IF d["grace"] = <<>> THEN RetEpochs(SQLITE_DONE, d, cur, rec)
    ELSE RetEpochs(0, d, d["grace"][1].current, d["grace"][1].recovery)

\* The result of sqlite_prepare_dbh: the handle is kept (TRUE) or closed
\* and reset to NULL (FALSE).
RetOpen(ret, h, d, cur, rec) ==
    [ret |-> ret, dbh |-> h, db |-> d, cur |-> cur, rec |-> rec]

\* Mutant of UpgradeSchema: a version the code does not know is taken
\* as it is.
UpgradeSchemaLenient(v, d) ==
    IF v = CLD_SQLITE_LATEST_SCHEMA_VERSION THEN Ret(0, d)
    ELSE IF v = 2 THEN sqlite_maindb_update_schema(d, 2)
    ELSE IF v = 1 THEN sqlite_maindb_update_schema(d, 1)
    ELSE IF v = 0 THEN sqlite_maindb_init_v3(d)
    ELSE Ret(0, d)

\* The switch of sqlite_prepare_dbh on the schema version v it has read.
UpgradeSchema(v, d) ==
    IF v = CLD_SQLITE_LATEST_SCHEMA_VERSION THEN Ret(0, d)
    ELSE IF v = 2 THEN sqlite_maindb_update_schema(d, 2)
    ELSE IF v = 1 THEN sqlite_maindb_update_schema(d, 1)
    ELSE IF v = 0 THEN sqlite_maindb_init_v3(d)
    ELSE Ret(-EINVAL, d)

sqlite_prepare_dbh(h, d, cur, rec) ==
    LET v  == sqlite_query_schema_version(d)
        up == UpgradeSchema(v, d)
        q  == sqlite_startup_query_grace(up.db, cur, rec)
    IN  IF h THEN RetOpen(0, h, d, cur, rec)
        ELSE IF up.ret # 0 THEN RetOpen(up.ret, FALSE, up.db, cur, rec)
        ELSE RetOpen(q.ret, TRUE, q.db, q.cur, q.rec)

sqlite_insert_client(d, cur, id) ==
    LET t == RecTable(cur)
        s == StepInsertOrReplace(d, t, id)
    IN  IF Prepare(d, t) # SQLITE_OK THEN Ret(SQLITE_ERROR, d)
        ELSE IF s.rc = SQLITE_DONE THEN Ret(SQLITE_OK, s.db)
        ELSE Ret(s.rc, d)

sqlite_remove_client(d, cur, id) ==
    LET t == RecTable(cur)
        s == StepDeleteId(d, t, id)
    IN  IF Prepare(d, t) # SQLITE_OK THEN Ret(SQLITE_ERROR, d)
        ELSE IF s.rc = SQLITE_DONE THEN Ret(SQLITE_OK, s.db)
        ELSE Ret(s.rc, d)

\* Mutant of CheckEpoch: the lookup is in the current_epoch bucket.
CheckEpochCurrent(cur, rec) == cur

\* The epoch whose bucket sqlite_check_client looks the id up in.
CheckEpoch(cur, rec) == rec

sqlite_check_client(d, cur, rec, id) ==
    LET t == RecTable(CheckEpoch(cur, rec))
    IN  IF Prepare(d, t) # SQLITE_OK THEN Ret(SQLITE_ERROR, d)
        ELSE IF SelectCount(d, t, id) # 1 THEN Ret(-EACCES, d)
        ELSE sqlite_insert_client(d, cur, id)

\* Mutant of GraceEpochs: trec is taken after tcur++.
GraceEpochsLate(tcur) == [cur |-> tcur + 1, rec |-> tcur + 1]

\* trec = tcur; tcur++: the epochs a normal grace start allocates.
GraceEpochs(tcur) == [cur |-> tcur + 1, rec |-> tcur]

sqlite_grace_start(d, cur, rec) ==
    LET e  == GraceEpochs(cur)
        a1 == ExecUpdateGrace(d, e.cur, e.rec)
        a2 == ExecCreateTable(a1.db, RecTable(e.cur), {})
        b1 == ExecDeleteAll(d, RecTable(cur))
    IN  IF rec = 0
        THEN IF a1.rc # SQLITE_OK THEN RetEpochs(a1.rc, d, cur, rec)
             ELSE IF a2.rc # SQLITE_OK THEN RetEpochs(a2.rc, d, cur, rec)
             ELSE RetEpochs(SQLITE_OK, a2.db, e.cur, e.rec)
        ELSE IF b1.rc # SQLITE_OK THEN RetEpochs(b1.rc, d, cur, rec)
             ELSE RetEpochs(SQLITE_OK, b1.db, cur, rec)

sqlite_grace_done(d, cur, rec) ==
    LET s1 == ExecClearRecovery(d)
        s2 == ExecDropTable(s1.db, RecTable(rec))
    IN  IF s1.rc # SQLITE_OK THEN RetEpochs(s1.rc, d, cur, rec)
        ELSE IF s2.rc # SQLITE_OK THEN RetEpochs(s2.rc, d, cur, rec)
        ELSE RetEpochs(SQLITE_OK, s2.db, cur, 0)

\* Mutant of NotInGrace: the test of recovery_epoch is missing.
NotInGraceNever(rec) == FALSE

\* recovery_epoch == 0: not in grace.
NotInGrace(rec) == rec = 0

\* The orders in which SELECT * can return the rows of a bucket.
RowOrders(rows) ==
    {s \in [1..Cardinality(rows) -> rows] :
        \A i, j \in DOMAIN s : s[i] = s[j] => i = j}

\* The result of sqlite_iterate_recovery: its return value and the ids
\* the callback has been called with, in the order of the calls.  order
\* is the order in which sqlite3_step returns the rows.
sqlite_iterate_recovery(d, rec, order) ==
    IF NotInGrace(rec) THEN [ret |-> -EINVAL, cbs |-> <<>>]
    ELSE IF Prepare(d, RecTable(rec)) # SQLITE_OK
         THEN [ret |-> SQLITE_ERROR, cbs |-> <<>>]
    ELSE [ret |-> 0, cbs |-> order]

\* ------------------------------------------------- statement by statement

\* The second sqlite error code a failing statement is given here.
SQLITE_BUSY == 5

\* The error codes of a statement that fails for a reason outside the
\* database's contents (lock held by another process, disk, memory).
FaultCodes == {SQLITE_ERROR, SQLITE_BUSY}

\* One statement of a function: k its kind, t its table (for BEGIN the
\* label a failure goes to), a and b its numbers.
Stmt(k, t, a, b) == [k |-> k, t |-> t, a |-> a, b |-> b]

\* The statements of sqlite_maindb_update_schema.
UpdateSchemaProgram(oldversion) ==
    << Stmt("begin", "rollback", 0, 0),
       Stmt("recheck", "parameters", oldversion, 0),
       Stmt("create_grace", "grace", 0, 0),
       Stmt("insert_grace", "grace", 0, 0),
       Stmt("create_rec", "rec-0000000000000001", 0, 0),
       Stmt("copy", "rec-0000000000000001", 0, 0),
       Stmt("drop", "clients", 0, 0),
       Stmt("update_version", "parameters", CLD_SQLITE_LATEST_SCHEMA_VERSION, 0),
       Stmt("commit", "", 0, 0) >>

\* The statements of sqlite_maindb_init_v3: a failing BEGIN returns
\* without a ROLLBACK.
InitV3Program ==
    << Stmt("begin", "out", 0, 0),
       Stmt("recheck", "parameters", 0, 0),
       Stmt("create_parameters", "parameters", 0, 0),
       Stmt("create_grace", "grace", 0, 0),
       Stmt("insert_grace", "grace", 0, 0),
       Stmt("create_rec", "rec-0000000000000001", 0, 0),
       Stmt("insert_version", "parameters", CLD_SQLITE_LATEST_SCHEMA_VERSION, 0),
       Stmt("commit", "", 0, 0) >>

\* Mutant of GraceStartProgram: the globals are assigned before the
\* transaction begins.
GraceStartProgramEarly(tcur, trec) ==
    IF trec = 0
    THEN << Stmt("globals", "", GraceEpochs(tcur).cur, GraceEpochs(tcur).rec),
            Stmt("begin", "rollback", 0, 0),
            Stmt("update_grace", "grace", GraceEpochs(tcur).cur, GraceEpochs(tcur).rec),
            Stmt("create_rec", RecTable(GraceEpochs(tcur).cur), 0, 0),
            Stmt("commit", "", 0, 0) >>
    ELSE << Stmt("globals", "", tcur, trec),
            Stmt("begin", "rollback", 0, 0),
            Stmt("delete", RecTable(tcur), 0, 0),
            Stmt("commit", "", 0, 0) >>

\* The statements of sqlite_grace_start with the locals tcur and trec: the
\* last one is the assignment of the globals after COMMIT.
GraceStartProgram(tcur, trec) ==
    IF trec = 0
    THEN << Stmt("begin", "rollback", 0, 0),
            Stmt("update_grace", "grace", GraceEpochs(tcur).cur, GraceEpochs(tcur).rec),
            Stmt("create_rec", RecTable(GraceEpochs(tcur).cur), 0, 0),
            Stmt("commit", "", 0, 0),
            Stmt("globals", "", GraceEpochs(tcur).cur, GraceEpochs(tcur).rec) >>
    ELSE << Stmt("begin", "rollback", 0, 0),
            Stmt("delete", RecTable(tcur), 0, 0),
            Stmt("commit", "", 0, 0),
            Stmt("globals", "", tcur, trec) >>

\* Mutant of GraceDoneProgram: recovery_epoch is cleared before BEGIN.
GraceDoneProgramEarly(cur, rec) ==
    << Stmt("globals", "", cur, 0),
       Stmt("begin", "rollback", 0, 0),
       Stmt("clear_recovery", "grace", 0, 0),
       Stmt("drop", RecTable(rec), 0, 0),
       Stmt("commit", "", 0, 0) >>

\* The statements of sqlite_grace_done: the last one is recovery_epoch = 0.
GraceDoneProgram(cur, rec) ==
    << Stmt("begin", "rollback", 0, 0),
       Stmt("clear_recovery", "grace", 0, 0),
       Stmt("drop", RecTable(rec), 0, 0),
       Stmt("commit", "", 0, 0),
       Stmt("globals", "", cur, 0) >>

\* The statements sqlite_prepare_dbh runs for the schema version v, and
\* the value of ret before them.
OpenProgram(v) ==
    IF v = 2 THEN UpdateSchemaProgram(2)
    ELSE IF v = 1 THEN UpdateSchemaProgram(1)
    ELSE IF v = 0 THEN InitV3Program
    ELSE <<>>

OpenFirstRet(v) ==
    IF v \in {0, 1, 2, CLD_SQLITE_LATEST_SCHEMA_VERSION} THEN 0 ELSE -EINVAL

\* sqlite3_exec of the statement st on database d.
ExecStmt(d, st) ==
    CASE st.k = "create_parameters" -> ExecCreateTable(d, "parameters", {})
      [] st.k = "create_grace"      -> ExecCreateTable(d, "grace", <<>>)
      [] st.k = "insert_grace"      -> ExecInsertGrace(d, InitialGraceRow)
      [] st.k = "create_rec"        -> ExecCreateTable(d, st.t, {})
      [] st.k = "copy"              -> ExecCopyIds(d, st.t, "clients")
      [] st.k = "drop"              -> ExecDropTable(d, st.t)
      [] st.k = "update_version"    -> ExecUpdateVersion(d, st.a)
      [] st.k = "insert_version"    -> ExecInsertVersion(d, st.a)
      [] st.k = "update_grace"      -> ExecUpdateGrace(d, st.a, st.b)
      [] st.k = "delete"            -> ExecDeleteAll(d, st.t)
      [] st.k = "clear_recovery"    -> ExecClearRecovery(d)

\* Mutant of BeginExclusive: no transaction is started.
BeginNone(d) == [active |-> FALSE, db |-> <<>>]

\* BEGIN EXCLUSIVE TRANSACTION on database d: the statements that follow
\* work on a copy that COMMIT makes the database.
BeginExclusive(d) == [active |-> TRUE, db |-> d]

\* Mutant of AfterRollback: the result of ROLLBACK is returned.
AfterRollbackSecond(ret, ret2) == ret2

\* The value of ret after the rollback label: ret2 is only logged.
AfterRollback(ret, ret2) == ret

\* ------------------------------------------------------------------- state

VARIABLES
    db,              \* the on-disk database main.sqlite: table name -> contents
    dbh,             \* the process's database handle is set (not NULL)
    current_epoch,   \* the process's global current_epoch
    recovery_epoch,  \* the process's global recovery_epoch
    last,            \* the last call: operation, argument, return value, and
                     \* the database and the in-memory epochs it started from
    reclaim,         \* progress of an insert / restart / grace start sequence
    cbs,             \* the ids the last sqlite_iterate_recovery passed to its
                     \* callback, in order
    call,            \* the function running statement by statement: its
                     \* statements, its position, its ret and what it started from
    txn,             \* the handle's open transaction and its uncommitted database
    done,            \* the last function that ran statement by statement, and
                     \* the function a kill of the process interrupted
    procs            \* two processes on one database: each one's handle,
                     \* globals, position in sqlite_prepare_dbh, the version
                     \* it read first and what its sqlite_prepare_dbh returned
    ,
    idc,             \* the last call made with a client id given as bytes:
                     \* operation, id, return value, what it started from,
                     \* and whether the process died in it
    xd               \* the exportd process: position in main, command line,
                     \* option variables, signal handlers, how it ended

vars == <<db, dbh, current_epoch, recovery_epoch, last, reclaim, cbs,
          call, txn, done, procs, idc, xd>>

\* The variable of the calls with client ids of given lengths.
idVars == <<idc>>

\* The variable of the exportd process.
exportdVars == <<xd>>

\* The variables of two processes on one database.
raceVars == <<procs>>

\* The variables of a function running statement by statement.
stepVars == <<call, txn, done>>

\* A database file that does not exist yet, or holds no table.
EmptyDb == <<>>

\* A database of schema version v (1 or 2): the version row and the legacy
\* clients table holding the ids S.
LegacyDb(v, S) ==
    [t \in {"parameters", "clients"} |->
        IF t = "parameters" THEN {<<"version", VersionText(v)>>} ELSE S]

\* No function is running statement by statement.
IdleCall ==
    [op |-> "idle", prog |-> <<>>, pc |-> 1, at |-> "out", ret |-> 0,
     fk |-> "none", fault |-> 0, begun |-> FALSE, committed |-> FALSE,
     db |-> <<>>, cur |-> 0, rec |-> 0]

\* The handle has no open transaction.
NoTxn == [active |-> FALSE, db |-> <<>>]

\* No function has run statement by statement.
NoDone ==
    [op |-> "none", ret |-> 0, fk |-> "none", fault |-> 0,
     db |-> <<>>, cur |-> 0, rec |-> 0,
     cop |-> "none", cin |-> FALSE, cpc |-> 0,
     cdb |-> <<>>, ccur |-> 0, crec |-> 0]

\* No call with a client id given as bytes has been made.
NoIdCall ==
    [op |-> "none", id |-> <<>>, ret |-> 0, db |-> <<>>, cur |-> 0, rec |-> 0,
     killed |-> FALSE]

\* exportd has not been started.
NoOptions == [foreground |-> 0, debug |-> <<>>, exited |-> FALSE, status |-> 0]
NotStarted ==
    [pc |-> "none", cmd |-> <<>>, argv |-> <<>>, opt |-> NoOptions,
     parsed |-> FALSE, handlers |-> FALSE, step |-> 0, served |-> 0,
     why |-> "none", how |-> "none", status |-> 0, sig |-> "none",
     cut |-> FALSE]

\* The two processes that open the same database.
Procs == {"A", "B"}

\* A process that has not called sqlite_prepare_dbh.
NewProc ==
    [dbh |-> FALSE, cur |-> 0, rec |-> 0, at |-> "closed", ver |-> 0, ret |-> 0]

\* A database stamped with a schema version newer than the code knows.
NewerDb == [t \in {"parameters"} |-> {<<"version", VersionText(4)>>}]

\* A database of the current layout stamped with a schema version newer
\* than the code knows.
NewerFullDb ==
    [t \in {"parameters", "grace", "rec-0000000000000001"} |->
        IF t = "parameters" THEN {<<"version", VersionText(4)>>}
        ELSE IF t = "grace" THEN <<InitialGraceRow>>
        ELSE {}]

\* A database stamped with the schema version "0".
ZeroDb == [t \in {"parameters"} |-> {<<"version", "0">>}]

InitialDatabases ==
    {EmptyDb, NewerDb, NewerFullDb, ZeroDb}
        \cup {LegacyDb(v, S) : v \in {1, 2}, S \in SUBSET ClientIds}

\* last and reclaim are history variables: every action writes them, no
\* handler reads them; the properties below are stated over them.

\* The record of a call; id is 0 for a call without a client id.
Call(op, id, ret) ==
    [op |-> op, id |-> id, ret |-> ret,
     db |-> db, cur |-> current_epoch, rec |-> recovery_epoch,
     rep |-> last.op = op /\ last.id = id /\ last.ret = 0]

Idle == [stage |-> 0, id |-> 0, grace |-> FALSE]

\* Follows the sequence: insert_client(id) succeeds (stage 1), the daemon
\* restarts (2) and opens the database (3), grace_start succeeds (4); the
\* grace period that follows lasts until grace_done.
ReclaimNext(op, id, ret) ==
    IF op = "insert_client" /\ ret = 0
    THEN [stage |-> 1, id |-> id, grace |-> recovery_epoch # 0]
    ELSE IF op = "restart" /\ reclaim.stage = 1 THEN [reclaim EXCEPT !.stage = 2]
    ELSE IF op = "open" /\ ret = 0 /\ reclaim.stage = 2 THEN [reclaim EXCEPT !.stage = 3]
    ELSE IF op = "grace_start" /\ ret = 0 /\ reclaim.stage = 3 THEN [reclaim EXCEPT !.stage = 4]
    ELSE IF reclaim.stage = 4 /\ op \notin {"grace_done", "restart"} THEN reclaim
    ELSE Idle

Init ==
    /\ db \in InitialDatabases
    /\ dbh = FALSE
    /\ current_epoch = 0
    /\ recovery_epoch = 0
    /\ last = [op |-> "none", id |-> 0, ret |-> 0,
               db |-> db, cur |-> 0, rec |-> 0, rep |-> FALSE]
    /\ reclaim = Idle
    /\ cbs = <<>>
    /\ call = IdleCall
    /\ txn = NoTxn
    /\ done = NoDone
    /\ procs = [p \in Procs |-> NewProc]
    /\ idc = NoIdCall
    /\ xd = NotStarted

\* ----------------------------------------------------------------- actions

\* The daemon calls sqlite_prepare_dbh.
Open ==
    LET r == sqlite_prepare_dbh(dbh, db, current_epoch, recovery_epoch)
    IN  /\ db' = r.db
        /\ dbh' = r.dbh
        /\ current_epoch' = r.cur
        /\ recovery_epoch' = r.rec
        /\ last' = Call("open", 0, r.ret)
        /\ reclaim' = ReclaimNext("open", 0, r.ret)

\* The daemon process ends and a new one starts: the handle and the
\* globals are those of a fresh process, the database file stays.
Restart ==
    /\ dbh' = FALSE
    /\ current_epoch' = 0
    /\ recovery_epoch' = 0
    /\ last' = Call("restart", 0, 0)
    /\ reclaim' = ReclaimNext("restart", 0, 0)
    /\ UNCHANGED db

InsertClient(id) ==
    LET r == sqlite_insert_client(db, current_epoch, id)
    IN  /\ dbh
        /\ db' = r.db
        /\ last' = Call("insert_client", id, r.ret)
        /\ reclaim' = ReclaimNext("insert_client", id, r.ret)
        /\ UNCHANGED <<dbh, current_epoch, recovery_epoch>>

RemoveClient(id) ==
    LET r == sqlite_remove_client(db, current_epoch, id)
    IN  /\ dbh
        /\ db' = r.db
        /\ last' = Call("remove_client", id, r.ret)
        /\ reclaim' = ReclaimNext("remove_client", id, r.ret)
        /\ UNCHANGED <<dbh, current_epoch, recovery_epoch>>

CheckClient(id) ==
    LET r == sqlite_check_client(db, current_epoch, recovery_epoch, id)
    IN  /\ dbh
        /\ db' = r.db
        /\ last' = Call("check_client", id, r.ret)
        /\ reclaim' = ReclaimNext("check_client", id, r.ret)
        /\ UNCHANGED <<dbh, current_epoch, recovery_epoch>>

GraceStart ==
    LET r == sqlite_grace_start(db, current_epoch, recovery_epoch)
    IN  /\ dbh
        /\ current_epoch < MaxEpoch
        /\ db' = r.db
        /\ current_epoch' = r.cur
        /\ recovery_epoch' = r.rec
        /\ last' = Call("grace_start", 0, r.ret)
        /\ reclaim' = ReclaimNext("grace_start", 0, r.ret)
        /\ UNCHANGED dbh

GraceDone ==
    LET r == sqlite_grace_done(db, current_epoch, recovery_epoch)
    IN  /\ dbh
        /\ db' = r.db
        /\ current_epoch' = r.cur
        /\ recovery_epoch' = r.rec
        /\ last' = Call("grace_done", 0, r.ret)
        /\ reclaim' = ReclaimNext("grace_done", 0, r.ret)
        /\ UNCHANGED dbh

IterateRecovery ==
    \E order \in RowOrders(IF HasTable(db, RecTable(recovery_epoch))
                           THEN db[RecTable(recovery_epoch)] ELSE {}) :
        LET r == sqlite_iterate_recovery(db, recovery_epoch, order)
        IN  /\ dbh
            /\ cbs' = r.cbs
            /\ last' = Call("iterate_recovery", 0, r.ret)
            /\ reclaim' = ReclaimNext("iterate_recovery", 0, r.ret)
            /\ UNCHANGED <<db, dbh, current_epoch, recovery_epoch>>

\* What a call other than sqlite_iterate_recovery leaves of the variables
\* it does not name.
Quiet == cbs' = <<>> /\ UNCHANGED <<stepVars, raceVars, idVars, exportdVars>>

Next ==
    \/ Open /\ Quiet
    \/ Restart /\ Quiet
    \/ \E id \in ClientIds : InsertClient(id) /\ Quiet
    \/ \E id \in ClientIds : RemoveClient(id) /\ Quiet
    \/ \E id \in ClientIds : CheckClient(id) /\ Quiet
    \/ GraceStart /\ Quiet
    \/ GraceDone /\ Quiet
    \/ IterateRecovery /\ UNCHANGED <<stepVars, raceVars, idVars, exportdVars>>

Spec == Init /\ [][Next]_vars

\* ------------------------------------- actions, statement by statement
\* open, grace_start and grace_done run one statement at a time; a
\* statement can fail for a reason outside the database, and the process
\* can be killed between any two statements.

\* What the statements of the handle read: inside a transaction its
\* uncommitted copy.
View == IF txn.active THEN txn.db ELSE db

\* A function is entered with the statements prog and ret as given.
StartCall(op, prog, ret) ==
    /\ call' = [op |-> op, prog |-> prog, pc |-> 1,
                at |-> IF prog = <<>> THEN "out" ELSE "run",
                ret |-> ret, fk |-> "none", fault |-> 0,
                begun |-> FALSE, committed |-> FALSE,
                db |-> db, cur |-> current_epoch, rec |-> recovery_epoch]
    /\ done' = IF op = "open" /\ done.op = "crash" THEN done ELSE NoDone
    /\ UNCHANGED <<db, dbh, current_epoch, recovery_epoch, txn,
                   last, reclaim, cbs, raceVars, idVars, exportdVars>>

StepStartOpen ==
    /\ call.op = "idle" /\ ~dbh
    /\ StartCall("open", OpenProgram(sqlite_query_schema_version(db)),
                 OpenFirstRet(sqlite_query_schema_version(db)))

StepStartGraceStart ==
    /\ call.op = "idle" /\ dbh /\ current_epoch < MaxEpoch
    /\ StartCall("grace_start",
                 GraceStartProgram(current_epoch, recovery_epoch), 0)

StepStartGraceDone ==
    /\ call.op = "idle" /\ dbh
    /\ StartCall("grace_done",
                 GraceDoneProgram(current_epoch, recovery_epoch), 0)

\* The call after its statement at pc succeeded.
Advance(c) ==
    [c EXCEPT !.pc = @ + 1,
              !.at = IF c.pc + 1 > Len(c.prog) THEN "out" ELSE "run"]

\* The call after its statement st failed with rc: ret = rc and goto
\* rollback (sqlite_maindb_init_v3's BEGIN: return).
Failed(c, st, rc) ==
    [c EXCEPT !.ret = rc, !.fk = st.k, !.fault = rc,
              !.at = IF st.k = "begin" /\ st.t = "out" THEN "out" ELSE "rollback"]

\* The call after the version read under the transaction gave v.
Rechecked(c, st, v) ==
    IF v = st.a THEN Advance(c)
    ELSE [c EXCEPT !.at = "rollback",
                   !.ret = IF v = CLD_SQLITE_LATEST_SCHEMA_VERSION THEN 0
                           ELSE -EINVAL]

\* The statement at pc runs.
StepStmt ==
    /\ call.op # "idle" /\ call.at = "run"
    /\ LET st == call.prog[call.pc]
           r  == ExecStmt(View, st)
       IN  CASE st.k = "begin" ->
                  /\ IF txn.active
                     THEN call' = Failed(call, st, SQLITE_ERROR) /\ UNCHANGED txn
                     ELSE /\ call' = [Advance(call) EXCEPT !.begun = TRUE]
                          /\ txn' = BeginExclusive(db)
                  /\ UNCHANGED <<db, current_epoch, recovery_epoch>>
             [] st.k = "recheck" ->
                  /\ call' = Rechecked(call, st, sqlite_query_schema_version(View))
                  /\ UNCHANGED <<db, txn, current_epoch, recovery_epoch>>
             [] st.k = "commit" ->
                  /\ IF txn.active
                     THEN /\ call' = [Advance(call) EXCEPT !.committed = TRUE]
                          /\ db' = txn.db
                          /\ txn' = NoTxn
                     ELSE call' = Failed(call, st, SQLITE_ERROR) /\ UNCHANGED <<db, txn>>
                  /\ UNCHANGED <<current_epoch, recovery_epoch>>
             [] st.k = "globals" ->
                  /\ call' = Advance(call)
                  /\ current_epoch' = st.a
                  /\ recovery_epoch' = st.b
                  /\ UNCHANGED <<db, txn>>
             [] OTHER ->
                  /\ IF r.rc # SQLITE_OK
                     THEN call' = Failed(call, st, r.rc) /\ UNCHANGED <<db, txn>>
                     ELSE /\ call' = Advance(call)
                          /\ IF txn.active
                             THEN txn' = [txn EXCEPT !.db = r.db] /\ UNCHANGED db
                             ELSE db' = r.db /\ UNCHANGED txn
                  /\ UNCHANGED <<current_epoch, recovery_epoch>>
    /\ UNCHANGED <<dbh, done, last, reclaim, cbs, raceVars, idVars, exportdVars>>

\* The statement at pc fails with the code f and changes nothing; sqlite
\* may have rolled the transaction back by itself (auto).  A failing
\* version read makes sqlite_query_schema_version return 0.
StepFault ==
    \E f \in FaultCodes, auto \in BOOLEAN :
        /\ call.op # "idle" /\ call.at = "run"
        /\ LET st == call.prog[call.pc]
           IN  /\ st.k # "globals"
               /\ IF st.k = "recheck"
                  THEN /\ st.a # 0 /\ ~auto
                       /\ call' = [Rechecked(call, st, 0) EXCEPT
                                      !.fk = st.k, !.fault = f]
                       /\ UNCHANGED txn
                  ELSE /\ call' = Failed(call, st, f)
                       /\ txn' = IF auto THEN NoTxn ELSE txn
        /\ UNCHANGED <<db, dbh, current_epoch, recovery_epoch, done,
                       last, reclaim, cbs, raceVars, idVars, exportdVars>>

\* The rollback label: ROLLBACK TRANSACTION fails when no transaction is
\* open.
StepRollback ==
    /\ call.op # "idle" /\ call.at = "rollback"
    /\ call' = [call EXCEPT
                   !.at = "out",
                   !.ret = AfterRollback(call.ret, IF txn.active THEN SQLITE_OK
                                                   ELSE SQLITE_ERROR)]
    /\ txn' = NoTxn
    /\ UNCHANGED <<db, dbh, current_epoch, recovery_epoch, done,
                   last, reclaim, cbs, raceVars, idVars, exportdVars>>

\* The function returns.  sqlite_prepare_dbh closes the handle after an
\* error of the schema functions and reads the grace row otherwise.
StepReturn ==
    /\ call.op # "idle" /\ call.at = "out"
    /\ LET q    == sqlite_startup_query_grace(db, current_epoch, recovery_epoch)
           read == call.op = "open" /\ call.ret = 0
           base == IF call.op = "open" /\ done.op = "crash" THEN done ELSE NoDone
       IN  /\ dbh' = IF call.op = "open" THEN call.ret = 0 ELSE dbh
           /\ current_epoch' = IF read THEN q.cur ELSE current_epoch
           /\ recovery_epoch' = IF read THEN q.rec ELSE recovery_epoch
           /\ txn' = IF call.op = "open" /\ call.ret # 0 THEN NoTxn ELSE txn
           /\ done' = [base EXCEPT !.op = call.op,
                                   !.ret = IF read THEN q.ret ELSE call.ret,
                                   !.fk = call.fk, !.fault = call.fault,
                                   !.db = call.db, !.cur = call.cur,
                                   !.rec = call.rec]
    /\ call' = IdleCall
    /\ UNCHANGED <<db, last, reclaim, cbs, raceVars, idVars, exportdVars>>

\* The process is killed and a new one starts: the handle, the globals
\* and the uncommitted transaction are gone, the database file stays.
StepCrash ==
    /\ dbh \/ call.op # "idle"
    /\ dbh' = FALSE
    /\ current_epoch' = 0
    /\ recovery_epoch' = 0
    /\ txn' = NoTxn
    /\ call' = IdleCall
    /\ done' = [NoDone EXCEPT
                   !.op = "crash",
                   !.cop = call.op,
                   !.cin = call.begun /\ ~call.committed,
                   !.cpc = call.pc,
                   !.cdb = IF call.op = "idle" THEN db ELSE call.db,
                   !.ccur = IF call.op = "idle" THEN current_epoch ELSE call.cur,
                   !.crec = IF call.op = "idle" THEN recovery_epoch ELSE call.rec]
    /\ UNCHANGED <<db, last, reclaim, cbs, raceVars, idVars, exportdVars>>

\* A client is recorded between two functions.
StepInsertClient(id) ==
    /\ call.op = "idle" /\ dbh
    /\ db' = sqlite_insert_client(db, current_epoch, id).db
    /\ done' = NoDone
    /\ UNCHANGED <<dbh, current_epoch, recovery_epoch, call, txn,
                   last, reclaim, cbs, raceVars, idVars, exportdVars>>

NextSteps ==
    \/ StepStartOpen
    \/ StepStartGraceStart
    \/ StepStartGraceDone
    \/ StepStmt
    \/ StepFault
    \/ StepRollback
    \/ StepReturn
    \/ StepCrash
    \/ \E id \in ClientIds : StepInsertClient(id)

SpecSteps == Init /\ [][NextSteps]_vars

\* ------------------------------- actions, open whose last read fails
\* The statement-by-statement actions, and besides them a failure of the
\* SELECT of sqlite_startup_query_grace and a call of sqlite_prepare_dbh
\* made while the handle is set.  Clients are those of the legacy
\* databases; none is recorded between the functions.

\* sqlite_prepare_dbh after sqlite_startup_query_grace failed with f:
\* ret is returned at once, the handle and the globals stay as they are.
ReadFailed(f) == RetOpen(f, TRUE, db, current_epoch, recovery_epoch)

\* The schema functions have succeeded; the prepare or the step of
\* "SELECT * FROM grace" fails with f.
StepReturnReadFails ==
    \E f \in FaultCodes :
        /\ call.op = "open" /\ call.at = "out" /\ call.ret = 0
        /\ dbh' = ReadFailed(f).dbh
        /\ current_epoch' = ReadFailed(f).cur
        /\ recovery_epoch' = ReadFailed(f).rec
        /\ done' = [NoDone EXCEPT !.op = "open", !.ret = ReadFailed(f).ret,
                                  !.fk = "query_grace", !.fault = f,
                                  !.db = call.db, !.cur = call.cur,
                                  !.rec = call.rec]
        /\ call' = IdleCall
        /\ UNCHANGED <<db, txn, last, reclaim, cbs, raceVars, idVars, exportdVars>>

\* sqlite_prepare_dbh is called with the handle set: "Do nothing if the
\* database handle is already set up".
StepOpenAgain ==
    /\ call.op = "idle" /\ dbh
    /\ done' = [NoDone EXCEPT
                   !.op = "open",
                   !.ret = sqlite_prepare_dbh(dbh, db, current_epoch,
                                              recovery_epoch).ret,
                   !.fk = IF done.op = "open" THEN done.fk ELSE "none",
                   !.db = db, !.cur = current_epoch, !.rec = recovery_epoch]
    /\ UNCHANGED <<db, dbh, current_epoch, recovery_epoch, call, txn,
                   last, reclaim, cbs, raceVars, idVars, exportdVars>>

NextOpen ==
    \/ StepStartOpen
    \/ StepStartGraceStart
    \/ StepStartGraceDone
    \/ StepStmt
    \/ StepFault
    \/ StepRollback
    \/ StepReturn
    \/ StepCrash
    \/ StepReturnReadFails
    \/ StepOpenAgain

SpecOpen == Init /\ [][NextOpen]_vars

\* --------------------------------------- actions, two processes
\* Two processes work on the same database file.  A statement outside a
\* transaction and an exclusive transaction are atomic for the other
\* process; sqlite_prepare_dbh reads the version, runs the schema
\* function and reads the grace row in three such steps.

\* The variables of the single process stay as they are.
RaceFrame ==
    UNCHANGED <<dbh, current_epoch, recovery_epoch, last, reclaim, cbs, stepVars,
                idVars, exportdVars>>

\* sqlite_prepare_dbh: open the file and read the schema version.
RaceOpenRead(p) ==
    /\ procs[p].at = "closed"
    /\ procs' = [procs EXCEPT ![p].at = "read",
                              ![p].ver = sqlite_query_schema_version(db)]
    /\ UNCHANGED db
    /\ RaceFrame

\* sqlite_prepare_dbh: the switch on the version read, with its
\* exclusive transaction; an error closes the handle and returns.
RaceOpenUpgrade(p) ==
    LET up == UpgradeSchema(procs[p].ver, db)
    IN  /\ procs[p].at = "read"
        /\ db' = up.db
        /\ procs' = [procs EXCEPT ![p].at = IF up.ret # 0 THEN "closed"
                                            ELSE "upgraded",
                                  ![p].ret = up.ret]
        /\ RaceFrame

\* sqlite_prepare_dbh: sqlite_startup_query_grace and return.
RaceOpenQuery(p) ==
    LET q == sqlite_startup_query_grace(db, procs[p].cur, procs[p].rec)
    IN  /\ procs[p].at = "upgraded"
        /\ procs' = [procs EXCEPT ![p].at = "open", ![p].dbh = TRUE,
                                  ![p].cur = q.cur, ![p].rec = q.rec,
                                  ![p].ret = q.ret]
        /\ UNCHANGED db
        /\ RaceFrame

RaceInsertClient(p, id) ==
    /\ procs[p].dbh
    /\ db' = sqlite_insert_client(db, procs[p].cur, id).db
    /\ UNCHANGED procs
    /\ RaceFrame

RaceRemoveClient(p, id) ==
    /\ procs[p].dbh
    /\ db' = sqlite_remove_client(db, procs[p].cur, id).db
    /\ UNCHANGED procs
    /\ RaceFrame

RaceGraceStart(p) ==
    LET r == sqlite_grace_start(db, procs[p].cur, procs[p].rec)
    IN  /\ procs[p].dbh /\ procs[p].cur < MaxRaceEpoch
        /\ db' = r.db
        /\ procs' = [procs EXCEPT ![p].cur = r.cur, ![p].rec = r.rec]
        /\ RaceFrame

RaceGraceDone(p) ==
    LET r == sqlite_grace_done(db, procs[p].cur, procs[p].rec)
    IN  /\ procs[p].dbh
        /\ db' = r.db
        /\ procs' = [procs EXCEPT ![p].cur = r.cur, ![p].rec = r.rec]
        /\ RaceFrame

NextRace ==
    \E p \in Procs :
        \/ RaceOpenRead(p)
        \/ RaceOpenUpgrade(p)
        \/ RaceOpenQuery(p)
        \/ \E id \in RaceIds : RaceInsertClient(p, id)
        \/ \E id \in RaceIds : RaceRemoveClient(p, id)
        \/ RaceGraceStart(p)
        \/ RaceGraceDone(p)

SpecRace == Init /\ [][NextRace]_vars

\* ------------------------------------- actions, client ids as bytes
\* One process, every function atomic; a client id is the byte string
\* the caller passes as (clname, namelen).

\* The size of cn_id, the array sqlite_iterate_recovery copies into.
NFS4_OPAQUE_LIMIT == 128

\* The largest epoch the calls with byte strings reach.
MaxIdEpoch == 2

\* The lengths of the client ids tried, and the ids: n bytes 'A'.
IdLens == {0, 1, NFS4_OPAQUE_LIMIT, NFS4_OPAQUE_LIMIT + 1}
ByteId(n) == [i \in 1..n |-> 65]
ByteIds == {ByteId(n) : n \in IdLens}

\* sqlite3_bind_blob(stmt, 1, clname, namelen, SQLITE_STATIC): the blob
\* is the first namelen bytes at clname.
bind_blob(clname, namelen) == SubSeq(clname, 1, namelen)

\* What the callback finds in cmsg->cm_u.cm_name after the memcpy of
\* NFS4_OPAQUE_LIMIT bytes and the assignment of cn_len: cn_id stands for
\* the bytes of the array that came from the blob, cn_len is
\* sqlite3_column_bytes.
cm_name(blob) ==
    [cn_id  |-> SubSeq(blob, 1, IF Len(blob) < NFS4_OPAQUE_LIMIT THEN Len(blob)
                                ELSE NFS4_OPAQUE_LIMIT),
     cn_len |-> Len(blob)]

\* The memcpy reads NFS4_OPAQUE_LIMIT bytes at sqlite3_column_blob, which
\* holds Len(blob) bytes and is NULL for a blob of no bytes: with fewer
\* bytes than that the read leaves the blob, which is undefined.
ReadsPastBlob(blob) == Len(blob) < NFS4_OPAQUE_LIMIT

\* The outcomes of sqlite_iterate_recovery when sqlite3_step returns the
\* rows in the given order: the loop runs through, or the process dies in
\* the memcpy of a row it reads past, after the callbacks of the rows
\* before it.
iterate_recovery_outcomes(d, rec, order) ==
    IF NotInGrace(rec) THEN {[ret |-> -EINVAL, cbs |-> <<>>, killed |-> FALSE]}
    ELSE IF Prepare(d, RecTable(rec)) # SQLITE_OK
         THEN {[ret |-> SQLITE_ERROR, cbs |-> <<>>, killed |-> FALSE]}
    ELSE {[ret |-> 0, cbs |-> [i \in DOMAIN order |-> cm_name(order[i])],
           killed |-> FALSE]}
         \cup {[ret |-> 0,
                cbs |-> [i \in 1..(k - 1) |-> cm_name(order[i])],
                killed |-> TRUE] : k \in {j \in DOMAIN order : ReadsPastBlob(order[j])}}

\* The record of a call.
IdCall(op, id, ret, killed) ==
    [op |-> op, id |-> id, ret |-> ret, db |-> db,
     cur |-> current_epoch, rec |-> recovery_epoch, killed |-> killed]

IdsFrame == UNCHANGED <<last, reclaim, stepVars, raceVars, exportdVars>>

IdsOpen ==
    LET r == sqlite_prepare_dbh(dbh, db, current_epoch, recovery_epoch)
    IN  /\ ~dbh
        /\ db' = r.db /\ dbh' = r.dbh
        /\ current_epoch' = r.cur /\ recovery_epoch' = r.rec
        /\ idc' = IdCall("open", <<>>, r.ret, FALSE)
        /\ cbs' = <<>>
        /\ IdsFrame

IdsInsertClient(id) ==
    LET r == sqlite_insert_client(db, current_epoch, bind_blob(id, Len(id)))
    IN  /\ dbh
        /\ db' = r.db
        /\ idc' = IdCall("insert_client", id, r.ret, FALSE)
        /\ cbs' = <<>>
        /\ UNCHANGED <<dbh, current_epoch, recovery_epoch>>
        /\ IdsFrame

IdsRemoveClient(id) ==
    LET r == sqlite_remove_client(db, current_epoch, bind_blob(id, Len(id)))
    IN  /\ dbh
        /\ db' = r.db
        /\ idc' = IdCall("remove_client", id, r.ret, FALSE)
        /\ cbs' = <<>>
        /\ UNCHANGED <<dbh, current_epoch, recovery_epoch>>
        /\ IdsFrame

IdsCheckClient(id) ==
    LET r == sqlite_check_client(db, current_epoch, recovery_epoch,
                                 bind_blob(id, Len(id)))
    IN  /\ dbh
        /\ db' = r.db
        /\ idc' = IdCall("check_client", id, r.ret, FALSE)
        /\ cbs' = <<>>
        /\ UNCHANGED <<dbh, current_epoch, recovery_epoch>>
        /\ IdsFrame

IdsGraceStart ==
    LET r == sqlite_grace_start(db, current_epoch, recovery_epoch)
    IN  /\ dbh /\ current_epoch < MaxIdEpoch
        /\ db' = r.db
        /\ current_epoch' = r.cur /\ recovery_epoch' = r.rec
        /\ idc' = IdCall("grace_start", <<>>, r.ret, FALSE)
        /\ cbs' = <<>>
        /\ UNCHANGED dbh
        /\ IdsFrame

IdsGraceDone ==
    LET r == sqlite_grace_done(db, current_epoch, recovery_epoch)
    IN  /\ dbh
        /\ db' = r.db
        /\ current_epoch' = r.cur /\ recovery_epoch' = r.rec
        /\ idc' = IdCall("grace_done", <<>>, r.ret, FALSE)
        /\ cbs' = <<>>
        /\ UNCHANGED dbh
        /\ IdsFrame

\* sqlite_iterate_recovery; a process that dies in it is followed by a
\* new one, with no handle and the globals 0.
IdsIterateRecovery ==
    \E order \in RowOrders(IF HasTable(db, RecTable(recovery_epoch))
                           THEN db[RecTable(recovery_epoch)] ELSE {}) :
        \E o \in iterate_recovery_outcomes(db, recovery_epoch, order) :
            /\ dbh
            /\ cbs' = o.cbs
            /\ idc' = IdCall("iterate_recovery", <<>>, o.ret, o.killed)
            /\ dbh' = ~o.killed
            /\ current_epoch' = IF o.killed THEN 0 ELSE current_epoch
            /\ recovery_epoch' = IF o.killed THEN 0 ELSE recovery_epoch
            /\ UNCHANGED db
            /\ IdsFrame

\* The database is absent when the first process starts.
InitIds == Init /\ db = EmptyDb

NextIds ==
    \/ IdsOpen
    \/ \E id \in ByteIds : IdsInsertClient(id)
    \/ \E id \in ByteIds : IdsRemoveClient(id)
    \/ \E id \in ByteIds : IdsCheckClient(id)
    \/ IdsGraceStart
    \/ IdsGraceDone
    \/ IdsIterateRecovery

SpecIds == InitIds /\ [][NextIds]_vars

\* ------------------------------------------------ actions, exportd
\* The exportd process from its start to its end: the option loop of
\* main, the setup, the signal handlers, the upcall loop.

\* The longest command line, the requests served, and the steps of one
\* request handler.
MaxArgs == 2
MaxRequests == 1
HandlerSteps == 2

\* An element of the command line: a short option -name or a long option
\* --name, with its argument if it is given one.
Option(long, name, arg) == [long |-> long, name |-> name, arg |-> arg]
Options ==
    {Option(FALSE, "f", ""), Option(TRUE, "foreground", ""),
     Option(FALSE, "h", ""), Option(TRUE, "help", ""),
     Option(FALSE, "d", "all"), Option(TRUE, "debug", "all"),
     Option(FALSE, "x", ""), Option(TRUE, "bogus", "")}
CommandLines ==
    UNION {[1..n -> Options] : n \in 0..MaxArgs}

\* The table longopts and the option string "d:fh".
longopts ==
    {[name |-> "foreground", val |-> "F"],
     [name |-> "debug", val |-> "d"],
     [name |-> "help", val |-> "h"]}
optstring == {"d", "f", "h"}

\* getopt_long on one option: the val of the table entry of a long
\* option, the letter of a short option of the option string, "?" for
\* any other.
getopt_long(o) ==
    IF o.long
    THEN IF \E e \in longopts : e.name = o.name
         THEN (CHOOSE e \in longopts : e.name = o.name).val
         ELSE "?"
    ELSE IF o.name \in optstring THEN o.name ELSE "?"

\* Mutant of UsageCode: an option error ends the process with 2.
UsageCodeTwo(c) == IF c = "h" THEN 0 ELSE 2

\* The argument of usage in the switch of main: 0 for 'h', 1 for '?' and
\* for any other value.
UsageCode(c) == IF c = "h" THEN 0 ELSE 1

\* The switch of main on the value c of getopt_long, from the option
\* variables st.
OptionSwitch(st, c, optarg) ==
    IF c = "d" THEN [st EXCEPT !.debug = Append(@, optarg)]
    ELSE IF c = "f" THEN [st EXCEPT !.foreground = @ + 1]
    ELSE [st EXCEPT !.exited = TRUE, !.status = UsageCode(c)]

\* The loop of main over a command line.
RECURSIVE ParseArgs(_, _)
ParseArgs(argv, st) ==
    IF argv = <<>> \/ st.exited THEN st
    ELSE ParseArgs(Tail(argv),
                   OptionSwitch(st, getopt_long(Head(argv)), Head(argv).arg))

\* The process has ended: by exit(status) or return from main ("exit"),
\* or by the default action of a signal ("signal").
Exited(why, how, status) ==
    [xd EXCEPT !.pc = "exited", !.why = why, !.how = how, !.status = status]

XdFrame ==
    UNCHANGED <<db, dbh, current_epoch, recovery_epoch, last, reclaim, cbs,
                stepVars, raceVars, idVars>>

\* exportd is started with a command line.
XdStart ==
    /\ xd.pc = "none"
    /\ \E line \in CommandLines :
           xd' = [NotStarted EXCEPT !.pc = "getopt", !.cmd = line, !.argv = line]
    /\ XdFrame

\* One round of the while loop of main.
XdGetopt ==
    /\ xd.pc = "getopt" /\ xd.argv # <<>>
    /\ LET c  == getopt_long(Head(xd.argv))
           st == OptionSwitch(xd.opt, c, Head(xd.argv).arg)
       IN  xd' = IF st.exited
                 THEN [Exited(IF c = "h" THEN "help" ELSE "usage", "exit",
                              st.status)
                          EXCEPT !.opt = st, !.parsed = TRUE]
                 ELSE [xd EXCEPT !.opt = st, !.argv = Tail(@)]
    /\ XdFrame

\* getopt_long returns EOF.
XdGetoptEnd ==
    /\ xd.pc = "getopt" /\ xd.argv = <<>>
    /\ xd' = [xd EXCEPT !.pc = "setup", !.parsed = TRUE]
    /\ XdFrame

\* setup_state_path_names succeeds or not; daemon_init.
XdSetup ==
    /\ xd.pc = "setup"
    /\ \E ok \in BOOLEAN :
           xd' = IF ok THEN [xd EXCEPT !.pc = "signals"]
                 ELSE Exited("setup", "exit", 1)
    /\ XdFrame

\* set_signals: killer handles SIGINT and SIGTERM from now on.
XdSetSignals ==
    /\ xd.pc = "signals"
    /\ xd' = [xd EXCEPT !.pc = "loop", !.handlers = TRUE]
    /\ XdFrame

\* cache_process_loop takes a request: its handler is in flight.
XdRequest ==
    /\ xd.pc = "loop" /\ xd.served < MaxRequests
    /\ xd' = [xd EXCEPT !.pc = "handler", !.step = 0]
    /\ XdFrame

\* The handler in flight takes a step; after the last it is complete.
XdHandlerStep ==
    /\ xd.pc = "handler"
    /\ xd' = IF xd.step + 1 = HandlerSteps
             THEN [xd EXCEPT !.pc = "loop", !.step = 0, !.served = @ + 1]
             ELSE [xd EXCEPT !.step = @ + 1]
    /\ XdFrame

\* cache_process_loop returns: "process loop terminated unexpectedly".
XdLoopEnds ==
    /\ xd.pc = "loop"
    /\ xd' = Exited("loop", "exit", 1)
    /\ XdFrame

\* SIGINT or SIGTERM arrives.  With killer installed the handler runs at
\* once, wherever main is, and calls exit(0); before set_signals the
\* signal has its default action and ends the process.
XdSignal(sig) ==
    /\ xd.pc \notin {"none", "exited"}
    /\ xd' = [Exited("signal", IF xd.handlers THEN "exit" ELSE "signal", 0)
                 EXCEPT !.sig = sig, !.cut = (xd.pc = "handler")]
    /\ XdFrame

InitExportd == Init /\ db = EmptyDb

NextExportd ==
    \/ XdStart
    \/ XdGetopt
    \/ XdGetoptEnd
    \/ XdSetup
    \/ XdSetSignals
    \/ XdRequest
    \/ XdHandlerStep
    \/ XdLoopEnds
    \/ \E sig \in {"SIGINT", "SIGTERM"} : XdSignal(sig)

SpecExportd == InitExportd /\ [][NextExportd]_vars

\* ------------------------------------------------------------------ claims

\* The contents of the bucket of epoch e in database d ({} when absent).
Bucket(d, e) == IF HasTable(d, RecTable(e)) THEN d[RecTable(e)] ELSE {}

\* The on-disk grace row is (c, r).
DiskRowIs(d, c, r) ==
    /\ HasTable(d, "grace")
    /\ d["grace"] = <<[current |-> c, recovery |-> r]>>

\* Apart from table t, the database is as the last call found it.
SameExcept(t) ==
    /\ DOMAIN db = DOMAIN last.db
    /\ \A x \in DOMAIN db \ {t} : db[x] = last.db[x]

\* The in-memory epochs are as the last call found them.
SameEpochs == current_epoch = last.cur /\ recovery_epoch = last.rec

\* C1: in every reachable state recovery_epoch is 0 or less than
\* current_epoch, in memory and in every row of the on-disk grace table.
C1_RecoveryBelowCurrent ==
    /\ recovery_epoch = 0 \/ recovery_epoch < current_epoch
    /\ HasTable(db, "grace") =>
         \A i \in DOMAIN db["grace"] :
            \/ db["grace"][i].recovery = 0
            \/ db["grace"][i].recovery < db["grace"][i].current

\* C1 witness: a grace period is in force, in memory and on disk.
C1_Witness ==
    /\ last.op = "grace_start" /\ last.ret = 0 /\ last.rec = 0
    /\ recovery_epoch # 0
    /\ DiskRowIs(db, current_epoch, recovery_epoch)

\* C2 as stated: a check_client(id) in the grace period that follows
\* insert_client(id) succeeding, a restart and a grace_start is allowed,
\* whether or not a grace period was in force at the insert.
C2_Original ==
    (last.op = "check_client" /\ reclaim.stage = 4 /\ last.id = reclaim.id)
        => last.ret = 0

\* C2 amended: when insert_client(id) succeeds outside a grace period
\* (recovery_epoch = 0), then after a restart and a successful grace_start
\* check_client(id) during that grace period is allowed.
C2_ReclaimAfterRestart ==
    (last.op = "check_client" /\ reclaim.stage = 4 /\ last.id = reclaim.id
        /\ ~reclaim.grace)
        => last.ret = 0

\* C2 witness: such a check has been answered.
C2_Witness ==
    /\ last.op = "check_client" /\ reclaim.stage = 4 /\ last.id = reclaim.id
    /\ ~reclaim.grace
    /\ last.ret = 0

\* C3: during a grace period check_client(id) is allowed exactly when id
\* is in the recovery_epoch bucket; allowed, id is in the current_epoch
\* bucket afterwards; denied (-EACCES), the database and the epochs are
\* unchanged.
C3_CheckInGrace ==
    (last.op = "check_client" /\ last.rec # 0) =>
        /\ last.ret = 0 <=> last.id \in Bucket(last.db, last.rec)
        /\ last.ret = 0 => last.id \in Bucket(db, current_epoch)
        /\ last.ret # 0 => last.ret = -EACCES /\ db = last.db
        /\ SameEpochs

\* C3 witness: a check allowed for an id the current bucket did not hold.
C3_Witness ==
    /\ last.op = "check_client" /\ last.rec # 0 /\ last.ret = 0
    /\ last.id \notin Bucket(last.db, last.cur)
    /\ last.id \in Bucket(db, current_epoch)

\* C4 as stated: outside a grace period check_client returns the
\* permission-denied status -EACCES and changes no bucket.
C4_Original ==
    (last.op = "check_client" /\ last.rec = 0) =>
        last.ret = -EACCES /\ db = last.db

\* C4 amended: outside a grace period check_client(id) fails for every id
\* with SQLITE_ERROR (the lookup in the bucket of epoch 0, which does not
\* exist, cannot be prepared), not with -EACCES, and changes nothing.
C4_CheckOutsideGrace ==
    (last.op = "check_client" /\ last.rec = 0) =>
        last.ret = SQLITE_ERROR /\ db = last.db /\ SameEpochs

\* C4 witness: a check outside grace of an id the current bucket holds.
C4_Witness ==
    /\ last.op = "check_client" /\ last.rec = 0
    /\ last.id \in Bucket(db, current_epoch)
    /\ last.ret # 0

\* C5: a successful grace_start from (c, 0) leaves (c + 1, c), in memory
\* and in the grace row, and a new, empty bucket for c + 1; from (c, r)
\* with r # 0 it leaves both epochs as they were, in memory and on disk.
C5_GraceStartEpochs ==
    (last.op = "grace_start" /\ last.ret = 0) =>
        IF last.rec = 0
        THEN /\ current_epoch = last.cur + 1
             /\ recovery_epoch = last.cur
             /\ DiskRowIs(last.db, last.cur, 0)
             /\ DiskRowIs(db, last.cur + 1, last.cur)
             /\ ~HasTable(last.db, RecTable(last.cur + 1))
             /\ HasTable(db, RecTable(last.cur + 1))
             /\ Bucket(db, last.cur + 1) = {}
             /\ DOMAIN db = DOMAIN last.db \cup {RecTable(last.cur + 1)}
             /\ \A x \in DOMAIN last.db \ {"grace"} : db[x] = last.db[x]
        ELSE /\ SameEpochs
             /\ DiskRowIs(last.db, last.cur, last.rec)
             /\ DiskRowIs(db, last.cur, last.rec)
             /\ DOMAIN db = DOMAIN last.db

\* C5 witness: a grace_start outside a grace period has moved the epochs
\* from (2, 0) to (3, 2), the bucket of epoch 2 holding ids.
C5_Witness ==
    /\ last.op = "grace_start" /\ last.ret = 0 /\ last.rec = 0
    /\ current_epoch = 3 /\ recovery_epoch = 2
    /\ Bucket(db, 2) # {}

\* C5 witness of the other case: a grace_start during a grace period.
C5_WitnessInGrace ==
    /\ last.op = "grace_start" /\ last.ret = 0 /\ last.rec # 0
    /\ DiskRowIs(db, last.cur, last.rec)

\* C6 as stated: grace_done, called in any reachable state, clears
\* recovery_epoch in memory and on disk and removes exactly one bucket,
\* that of the previous recovery_epoch, leaving current_epoch and the
\* current bucket alone.
C6_Original ==
    last.op = "grace_done" =>
        /\ recovery_epoch = 0
        /\ current_epoch = last.cur
        /\ DiskRowIs(db, last.cur, 0)
        /\ HasTable(last.db, RecTable(last.rec))
        /\ DOMAIN db = DOMAIN last.db \ {RecTable(last.rec)}
        /\ Bucket(db, current_epoch) = Bucket(last.db, last.cur)

\* C6 amended: grace_done called during a grace period (recovery_epoch
\* # 0) succeeds with the effect stated; called outside a grace period it
\* returns an error (there is no bucket of epoch 0 to drop) and leaves
\* the database and the epochs as they were.
C6_GraceDone ==
    last.op = "grace_done" =>
        IF last.rec # 0
        THEN /\ last.ret = 0
             /\ recovery_epoch = 0
             /\ current_epoch = last.cur
             /\ DiskRowIs(db, last.cur, 0)
             /\ HasTable(last.db, RecTable(last.rec))
             /\ DOMAIN db = DOMAIN last.db \ {RecTable(last.rec)}
             /\ \A x \in DOMAIN db \ {"grace"} : db[x] = last.db[x]
        ELSE /\ last.ret # 0
             /\ db = last.db
             /\ SameEpochs

\* C6 witness: a grace_done has ended a grace period whose buckets both
\* held ids.
C6_Witness ==
    /\ last.op = "grace_done" /\ last.rec # 0 /\ last.ret = 0
    /\ Bucket(last.db, last.rec) # {}
    /\ Bucket(db, current_epoch) # {}

\* C7: after a successful grace_start during a grace period the
\* current_epoch bucket is empty and the recovery_epoch bucket holds what
\* it held before.
C7_RestartInGraceClears ==
    (last.op = "grace_start" /\ last.ret = 0 /\ last.rec # 0) =>
        /\ HasTable(db, RecTable(current_epoch))
        /\ Bucket(db, current_epoch) = {}
        /\ HasTable(db, RecTable(recovery_epoch))
        /\ Bucket(db, recovery_epoch) = Bucket(last.db, last.rec)
        /\ SameExcept(RecTable(last.cur))

\* C7 witness: such a grace_start found ids in both buckets.
C7_Witness ==
    /\ last.op = "grace_start" /\ last.ret = 0 /\ last.rec # 0
    /\ Bucket(last.db, last.cur) # {}
    /\ Bucket(last.db, last.rec) # {}

\* C8: after a successful insert_client(id) the current_epoch bucket is
\* what it was plus id and nothing else has changed; an insert_client(id)
\* right after a successful insert_client(id) succeeds and changes
\* nothing.
C8_InsertIdempotent ==
    /\ (last.op = "insert_client" /\ last.ret = 0) =>
          /\ HasTable(db, RecTable(current_epoch))
          /\ Bucket(db, current_epoch) = Bucket(last.db, last.cur) \cup {last.id}
          /\ SameExcept(RecTable(current_epoch))
          /\ SameEpochs
    /\ (last.op = "insert_client" /\ last.rep) =>
          /\ last.ret = 0
          /\ db = last.db

\* C8 witness: a second consecutive insert of the same id, during a grace
\* period.
C8_Witness ==
    /\ last.op = "insert_client" /\ last.rep /\ last.ret = 0
    /\ last.rec # 0
    /\ last.id \in Bucket(db, current_epoch)

\* C9: remove_client(id) succeeds whether or not the current_epoch bucket
\* holds id; afterwards that bucket is what it was less id, and nothing
\* else has changed.
C9_RemoveClient ==
    last.op = "remove_client" =>
        /\ last.ret = 0
        /\ HasTable(db, RecTable(current_epoch))
        /\ last.id \notin Bucket(db, current_epoch)
        /\ Bucket(db, current_epoch) = Bucket(last.db, last.cur) \ {last.id}
        /\ SameExcept(RecTable(current_epoch))
        /\ SameEpochs

\* C9 witness: a remove of an id that the current bucket did not hold and
\* the recovery bucket holds, while the current bucket holds another id.
C9_Witness ==
    /\ last.op = "remove_client" /\ last.ret = 0 /\ last.rec # 0
    /\ last.id \notin Bucket(last.db, last.cur)
    /\ last.id \in Bucket(db, recovery_epoch)
    /\ Bucket(db, current_epoch) # {}

\* C9 witness of the other case: a remove of an id the bucket held.
C9_WitnessPresent ==
    /\ last.op = "remove_client" /\ last.ret = 0
    /\ last.id \in Bucket(last.db, last.cur)

FreshDb(S) ==
    [t \in {"parameters", "grace", "rec-0000000000000001"} |->
        IF t = "parameters" THEN {<<"version", "3">>}
        ELSE IF t = "grace" THEN <<[current |-> 1, recovery |-> 0]>>
        ELSE S]

\* The text of parameters.version in database d, "" without one.
VersionOf(d) ==
    IF HasTable(d, "parameters") /\ \E p \in d["parameters"] : p[1] = "version"
    THEN (CHOOSE p \in d["parameters"] : p[1] = "version")[2]
    ELSE ""

\* C12: open on an empty or absent database succeeds with the epoch state
\* (1, 0) and leaves parameters.version "3", the single grace row (1, 0)
\* and the single bucket rec-0000000000000001, which is empty.
C12_OpenEmpty ==
    (last.op = "open" /\ last.db = EmptyDb) =>
        /\ last.ret = 0
        /\ dbh
        /\ current_epoch = 1 /\ recovery_epoch = 0
        /\ db = FreshDb({})
        /\ DOMAIN db = {"parameters", "grace", RecTable(1)}

\* An open has run on the empty database.
C12_Witness == last.op = "open" /\ last.db = EmptyDb /\ dbh

C14_MigratePreserves ==
    (last.op = "open" /\ VersionOf(last.db) \in {"1", "2"}) =>
        /\ last.ret = 0
        /\ dbh
        /\ current_epoch = 1 /\ recovery_epoch = 0
        /\ "clients" \notin DOMAIN db
        /\ VersionOf(db) = "3"
        /\ db[RecTable(1)] = last.db["clients"]
        /\ db = FreshDb(last.db["clients"])

\* An open has migrated a database whose clients table held every id.
C14_Witness ==
    /\ last.op = "open" /\ VersionOf(last.db) \in {"1", "2"}
    /\ last.db["clients"] = ClientIds

\* C15: open on a database whose version is readable and none of 1, 2
\* and 3 returns an error, keeps no handle and leaves the database as it
\* was.
C15_UnsupportedVersion ==
    (last.op = "open" /\ VersionOf(last.db) \notin {"", "1", "2", "3"}) =>
        /\ last.ret # 0
        /\ ~dbh
        /\ db = last.db

\* An open has run on a database of the current layout stamped with
\* version 4.
C15_Witness ==
    last.op = "open" /\ VersionOf(last.db) = VersionText(4) /\ HasTable(db, "grace")

\* An open has run on a database stamped with version 0.
C15_WitnessZero == last.op = "open" /\ VersionOf(last.db) = "0"

\* C20: sqlite_iterate_recovery called with recovery_epoch = 0 returns
\* -EINVAL, does not call the callback and changes neither the database
\* nor the in-memory epochs.
C20_IterateOutsideGrace ==
    (last.op = "iterate_recovery" /\ last.rec = 0) =>
        /\ last.ret = -EINVAL
        /\ cbs = <<>>
        /\ db = last.db
        /\ SameEpochs
        /\ dbh

\* sqlite_iterate_recovery has been called outside grace with a client
\* recorded in the current bucket.
C20_Witness ==
    /\ last.op = "iterate_recovery" /\ last.rec = 0
    /\ Bucket(db, current_epoch) # {}

\* sqlite_iterate_recovery has passed every id to the callback.
C20_WitnessInGrace ==
    /\ last.op = "iterate_recovery" /\ last.rec > 0
    /\ Len(cbs) = NumIds

\* C16: when a statement of sqlite_maindb_update_schema or of
\* sqlite_maindb_init_v3 fails, open returns that statement's error code
\* (-EINVAL when it is the version read under the transaction that
\* fails) whatever ROLLBACK returns, keeps no handle, and the database is
\* as it was before open.
C16_OpenStepFails ==
    (done.op = "open" /\ done.fk # "none") =>
        /\ done.ret # 0
        /\ done.fk # "recheck" => done.ret = done.fault
        /\ done.fk = "recheck" => done.ret = -EINVAL
        /\ ~dbh
        /\ db = done.db

\* The COMMIT of the migration of a database holding every id has failed
\* with SQLITE_BUSY.
C16_Witness ==
    /\ done.op = "open" /\ done.fk = "commit" /\ done.fault = SQLITE_BUSY
    /\ HasTable(db, "clients") /\ db["clients"] = ClientIds

\* The last statement before COMMIT of the first-time setup has failed.
C16_WitnessSetup ==
    done.op = "open" /\ done.fk = "insert_version" /\ done.db = EmptyDb

\* C17: when a statement of sqlite_grace_start or sqlite_grace_done fails
\* (BEGIN, the update of the grace row, the creation, clearing or drop of
\* a bucket, COMMIT), the function returns an error, the in-memory epochs
\* are unchanged and the database is as it was before the call.
C17_GraceStepFails ==
    (done.op \in {"grace_start", "grace_done"} /\ done.fk # "none") =>
        /\ done.ret # 0
        /\ current_epoch = done.cur /\ recovery_epoch = done.rec
        /\ db = done.db
        /\ dbh

\* The COMMIT of a normal grace start has failed.
C17_Witness ==
    /\ done.op = "grace_start" /\ done.fk = "commit" /\ done.rec = 0
    /\ Bucket(db, current_epoch) # {}

\* The drop of a non-empty recovery bucket by sqlite_grace_done has failed.
C17_WitnessDone ==
    /\ done.op = "grace_done" /\ done.fk = "drop" /\ done.rec > 0
    /\ Bucket(db, recovery_epoch) # {}

\* C18: when the process is killed inside the transaction of
\* sqlite_grace_start or sqlite_grace_done (after BEGIN, before COMMIT
\* has completed), the next open succeeds and finds the database and
\* the epochs as they were before the interrupted call.
C18_KillInTransaction ==
    (done.op = "open" /\ done.cop \in {"grace_start", "grace_done"} /\ done.cin) =>
        /\ done.ret = 0
        /\ dbh
        /\ db = done.cdb
        /\ current_epoch = done.ccur /\ recovery_epoch = done.crec

\* The process was killed between the clearing of a non-empty current
\* bucket and COMMIT, and the database has been opened again.
C18_Witness ==
    /\ done.op = "open" /\ done.cop = "grace_start" /\ done.cin
    /\ done.crec > 0 /\ done.cpc = 3
    /\ Bucket(db, current_epoch) # {}

\* The process was killed between the drop of the recovery bucket and
\* COMMIT, and the database has been opened again.
C18_WitnessDone ==
    /\ done.op = "open" /\ done.cop = "grace_done" /\ done.cin
    /\ done.crec > 0 /\ done.cpc = 4

\* C11: whenever sqlite_prepare_dbh has returned success to a process,
\* parameters.version on disk is "3": for the absent database, for
\* versions 1, 2 and 3, and when the other process set the database up
\* or migrated it between this process's first version read and its
\* exclusive transaction.
C11_OpenSuccessLatest ==
    \A p \in Procs :
        (procs[p].at = "open" /\ procs[p].ret = 0) => VersionOf(db) = "3"

\* Both processes found no version at their first read and both have
\* opened the database: the second one's setup transaction found the
\* database already set up.
C11_Witness ==
    \A p \in Procs : procs[p].at = "open" /\ procs[p].ret = 0 /\ procs[p].ver = 0

\* Both processes read an old version first and both have opened the
\* database: the second one's migration found the database migrated.
C11_WitnessMigrate ==
    \A p \in Procs :
        procs[p].at = "open" /\ procs[p].ret = 0 /\ procs[p].ver \in {1, 2}

\* The epochs of the grace row on disk.
DiskCurrent(d) == d["grace"][1].current
DiskRecovery(d) == d["grace"][1].recovery

\* C19: with two processes on one database, every insert_client,
\* remove_client and grace_start does to the database what the function
\* does when it works with the epochs of the grace row on disk.
C19_Original ==
    [][\A p \in Procs :
          /\ \A id \in RaceIds :
                RaceInsertClient(p, id) =>
                    db' = sqlite_insert_client(db, DiskCurrent(db), id).db
          /\ \A id \in RaceIds :
                RaceRemoveClient(p, id) =>
                    db' = sqlite_remove_client(db, DiskCurrent(db), id).db
          /\ RaceGraceStart(p) =>
                db' = sqlite_grace_start(db, DiskCurrent(db), DiskRecovery(db)).db
      ]_vars

\* The buckets of database d, and the buckets the epochs (c, r) call for.
RecTables(d) == DOMAIN d \ {"parameters", "grace", "clients"}
EpochTables(c, r) == {RecTable(c)} \cup (IF r = 0 THEN {} ELSE {RecTable(r)})

C26_WitnessSteady ==
    /\ dbh /\ last.op = "grace_done" /\ last.ret = 0
    /\ Cardinality(RecTables(db)) = 1

\* The recovery epoch of the grace row of d, 0 without a row.
RecoveryOf(d) ==
    IF HasTable(d, "grace") /\ Len(d["grace"]) > 0 THEN d["grace"][1].recovery ELSE 0

\* C27: while the database is in grace, no call other than a successful
\* sqlite_grace_done (insert_client, remove_client, check_client,
\* iterate_recovery, grace_start in grace, the end of the process, open)
\* changes the recovery bucket or the grace row, and check_client
\* allows every id of that bucket.
C27_RecoveryBucketFrozen ==
    /\ (RecoveryOf(last.db) # 0 /\ ~(last.op = "grace_done" /\ last.ret = 0)) =>
            /\ HasTable(db, RecTable(RecoveryOf(last.db)))
            /\ db[RecTable(RecoveryOf(last.db))] = Bucket(last.db, RecoveryOf(last.db))
            /\ HasTable(db, "grace") /\ db["grace"] = last.db["grace"]
    /\ (last.op = "check_client" /\ last.rec # 0
            /\ last.id \in Bucket(last.db, last.rec)) => last.ret = 0

\* A grace start in grace has cleared a non-empty current bucket beside a
\* non-empty recovery bucket.
C27_Witness ==
    /\ last.op = "grace_start" /\ last.ret = 0 /\ last.rec # 0
    /\ Bucket(last.db, last.cur) # {}
    /\ Bucket(db, recovery_epoch) # {}

\* A client of the recovery bucket has been removed in grace.
C27_WitnessRemove ==
    /\ last.op = "remove_client" /\ last.ret = 0 /\ last.rec # 0
    /\ last.id \in Bucket(db, last.rec)

\* C28: in one process running statement by statement, with statement
\* failures and kills, whenever no function is in progress and the handle
\* is open the globals equal the grace row on disk; inside
\* sqlite_grace_start and sqlite_grace_done the globals keep the values
\* they had on entry until COMMIT has succeeded.
C28_MemoryEqualsDisk ==
    /\ (call.op = "idle" /\ dbh) =>
            DiskRowIs(db, current_epoch, recovery_epoch)
    /\ (call.op \in {"grace_start", "grace_done"} /\ ~call.committed) =>
            (current_epoch = call.cur /\ recovery_epoch = call.rec)

\* sqlite_grace_start has written the new row under its transaction and
\* has not committed: the globals still are the old epochs.
C28_Witness ==
    /\ call.op = "grace_start" /\ call.begun /\ ~call.committed
    /\ txn.active /\ DiskRowIs(txn.db, call.cur + 1, call.cur)
    /\ call.rec = 0

\* sqlite_grace_done has committed and is about to clear recovery_epoch.
C28_WitnessCommitted ==
    /\ call.op = "grace_done" /\ call.committed /\ call.at = "run"
    /\ recovery_epoch # 0 /\ DiskRowIs(db, current_epoch, 0)

\* sqlite_grace_start failed at COMMIT and has returned.
C28_WitnessFailed ==
    /\ call.op = "idle" /\ dbh /\ done.op = "grace_start"
    /\ done.fk = "commit" /\ done.ret # 0

\* C29: when a process that has read schema version 0, 1 or 2 runs the
\* switch of open while another process opens the same database, it
\* returns success under every interleaving; if the database still is as
\* it read it (empty, or version 1 or 2) it sets it up or migrates it and
\* leaves version 3, the grace row (1, 0) and the bucket of epoch 1
\* holding exactly the legacy ids; if the other process has done that
\* already it finds version 3 under its transaction and changes nothing.
C29_RacingOpens ==
    [][\A p \in Procs :
         ( /\ procs[p].at = "read" /\ procs'[p].at # "read"
           /\ procs[p].ver \in {0, 1, 2}
           /\ \/ db = EmptyDb
              \/ sqlite_query_schema_version(db) \in {1, 2, 3} )
         => /\ procs'[p].at = "upgraded" /\ procs'[p].ret = 0
            /\ sqlite_query_schema_version(db') = 3
            /\ Len(db'["grace"]) = 1
            /\ IF sqlite_query_schema_version(db) = 3 THEN db' = db
               ELSE db' = FreshDb(IF db = EmptyDb THEN {} ELSE db["clients"])
    ]_vars

\* Both processes read version 1 or 2 of a database with clients before
\* either migrated it, and both have left the switch with success.
C29_Witness ==
    /\ \A p \in Procs :
          procs[p].at = "upgraded" /\ procs[p].ret = 0 /\ procs[p].ver \in {1, 2}
    /\ db = FreshDb(ClientIds)

\* Both processes found no database, and both have left the switch with
\* success.
C29_WitnessEmpty ==
    /\ \A p \in Procs :
          procs[p].at = "upgraded" /\ procs[p].ret = 0 /\ procs[p].ver = 0
    /\ db = FreshDb({})

\* C30: sqlite_prepare_dbh returns 0 only with the globals loaded from
\* the grace row on disk, and after a call that returned an error the
\* handle is released, so that the next call opens the database again.
C30_Original ==
    /\ (done.op = "open" /\ done.ret = 0) =>
            (dbh /\ DiskRowIs(db, current_epoch, recovery_epoch))
    /\ (done.op = "open" /\ done.ret # 0) => ~dbh

\* The half of C30 about success alone: it fails by the call that
\* follows a failed read.
C30_SuccessLoaded ==
    (done.op = "open" /\ done.ret = 0) =>
        (dbh /\ DiskRowIs(db, current_epoch, recovery_epoch))

\* C21: sqlite_iterate_recovery called in grace calls the callback once
\* for each id of the recovery bucket (not at all for an empty bucket)
\* with that id's bytes and length, returns 0, and changes neither the
\* database nor the epochs.
C21_Original ==
    (idc.op = "iterate_recovery" /\ idc.rec # 0) =>
        /\ ~idc.killed /\ idc.ret = 0
        /\ Len(cbs) = Cardinality(Bucket(idc.db, idc.rec))
        /\ {cbs[i].cn_id : i \in DOMAIN cbs} = Bucket(idc.db, idc.rec)
        /\ \A i \in DOMAIN cbs : cbs[i].cn_len = Len(cbs[i].cn_id)
        /\ db = idc.db
        /\ dbh /\ current_epoch = idc.cur /\ recovery_epoch = idc.rec

\* The part of C21 that needs no id shorter than the array: when every
\* id of the recovery bucket has exactly NFS4_OPAQUE_LIMIT bytes, or the
\* bucket is empty, the callback is called as C21 says.
C21_FullLengthIds ==
    ( /\ idc.op = "iterate_recovery" /\ idc.rec # 0
      /\ \A id \in Bucket(idc.db, idc.rec) : Len(id) = NFS4_OPAQUE_LIMIT )
    => /\ ~idc.killed /\ idc.ret = 0
       /\ Len(cbs) = Cardinality(Bucket(idc.db, idc.rec))
       /\ {cbs[i].cn_id : i \in DOMAIN cbs} = Bucket(idc.db, idc.rec)
       /\ \A i \in DOMAIN cbs : cbs[i].cn_len = Len(cbs[i].cn_id)
       /\ db = idc.db
       /\ dbh /\ current_epoch = idc.cur /\ recovery_epoch = idc.rec

\* C22: insert_client, remove_client and check_client accept an id of 0
\* bytes and one of NFS4_OPAQUE_LIMIT bytes, and reject an id of
\* NFS4_OPAQUE_LIMIT + 1 bytes with -EINVAL, changing no bucket.
C22_Original ==
    (idc.op \in {"insert_client", "remove_client", "check_client"}) =>
        /\ Len(idc.id) \in {0, NFS4_OPAQUE_LIMIT} => idc.ret # -EINVAL
        /\ ( /\ Len(idc.id) \in {0, NFS4_OPAQUE_LIMIT}
             /\ idc.op = "insert_client" /\ idc.ret = 0 ) =>
               idc.id \in Bucket(db, current_epoch)
        /\ Len(idc.id) = NFS4_OPAQUE_LIMIT + 1 =>
               (idc.ret = -EINVAL /\ db = idc.db)

\* The half of C22 about the ids that are accepted.
C22_AcceptsBoundary ==
    (idc.op \in {"insert_client", "remove_client", "check_client"}) =>
        /\ Len(idc.id) \in {0, NFS4_OPAQUE_LIMIT} => idc.ret # -EINVAL
        /\ ( /\ Len(idc.id) \in {0, NFS4_OPAQUE_LIMIT}
             /\ idc.op = "insert_client" /\ idc.ret = 0 ) =>
               idc.id \in Bucket(db, current_epoch)

\* C23: whenever SIGTERM or SIGINT arrives, the process ends by exit
\* with status 0, and a request handler in flight at that moment has run
\* to its end before the process ends.
C23_Original ==
    (xd.pc = "exited" /\ xd.why = "signal") =>
        (xd.how = "exit" /\ xd.status = 0 /\ ~xd.cut)

\* The part of C23 about the status: once set_signals has run, SIGTERM
\* and SIGINT end the process by exit(0).
C23_StatusZero ==
    (xd.pc = "exited" /\ xd.why = "signal" /\ xd.handlers) =>
        (xd.how = "exit" /\ xd.status = 0)

\* C24 as stated: the exit code is 0 on shutdown by a signal, 1 when the
\* setup fails, and 2 on an option that is not recognised.
C24_Original ==
    (xd.pc = "exited" /\ xd.how = "exit") =>
        /\ xd.why = "signal" => xd.status = 0
        /\ xd.why = "setup" => xd.status = 1
        /\ xd.why = "usage" => xd.status = 2

\* C24, amended: the exit code is 0 on shutdown by SIGTERM or SIGINT and
\* for -h or --help; it is 1 when the setup fails, when an option makes
\* getopt_long return a value the switch does not handle, and when the
\* upcall loop returns; it is never 2.
C24_ExitCodes ==
    (xd.pc = "exited" /\ xd.how = "exit") =>
        /\ xd.why \in {"signal", "help"} => xd.status = 0
        /\ xd.why \in {"setup", "usage", "loop"} => xd.status = 1
        /\ xd.why \in {"signal", "help", "setup", "usage", "loop"}

\* An option that is not in the option string has ended the process.
C24_Witness ==
    /\ xd.pc = "exited" /\ xd.how = "exit" /\ xd.why = "usage"
    /\ xd.cmd = <<Option(FALSE, "x", "")>>

\* The setup has failed after the options -f and -d.
C24_WitnessSetup ==
    /\ xd.pc = "exited" /\ xd.why = "setup"
    /\ xd.opt.foreground = 1 /\ xd.opt.debug = <<"all">>

\* The short equivalent of an option, and of a command line.
ShortOf(o) ==
    IF ~o.long THEN o
    ELSE Option(FALSE,
                CASE o.name = "foreground" -> "f"
                  [] o.name = "debug" -> "d"
                  [] o.name = "help" -> "h"
                  [] OTHER -> "x",
                o.arg)
ShortLine(line) == [i \in DOMAIN line |-> ShortOf(line[i])]

\* C25: for every command line, the option loop leaves what it leaves
\* for the command line with each long option replaced by its short
\* equivalent: the same foreground, the same debug kinds, the same exit.
C25_Original ==
    xd.parsed => xd.opt = ParseArgs(ShortLine(xd.cmd), NoOptions)

\* The part of C25 about --debug and --help: on command lines without
\* --foreground the long options act as the short ones.
C25_DebugHelp ==
    (xd.parsed /\ \A i \in DOMAIN xd.cmd : xd.cmd[i].name # "foreground") =>
        xd.opt = ParseArgs(ShortLine(xd.cmd), NoOptions)

====
